---- MODULE Spec2Model ----
(***************************************************************************)
(* Update-query construction and execution of bunnet                       *)
(* (bunnet/odm/queries/update.py): the builder calls update()/upsert(),    *)
(* the merged update document (the update_query property), and run() with  *)
(* its direct path, its bulk-writer path and its upsert fallback.          *)
(*                                                                         *)
(* A mapping (a Python dict) is a TLA+ function whose domain is the set of *)
(* its keys.  Python's None is the string "None" for handles and a record  *)
(* of type "None" for results.                                             *)
(***************************************************************************)
EXTENDS Integers, Sequences, FiniteSets, TLC

VARIABLES
    variant,             \* q -> the class of the query object: UpdateMany | UpdateOne
    find_query,          \* q -> self.find_query
    update_expressions,  \* q -> self.update_expressions
    session,             \* q -> self.session
    is_upsert,           \* q -> self.is_upsert
    upsert_insert_doc,   \* q -> self.upsert_insert_doc
    bulk_writer,         \* q -> self.bulk_writer
    pymongo_kwargs,      \* q -> self.pymongo_kwargs
    pc,                  \* q -> where the caller of q is: "idle", or "updated" inside run()
    update_result,       \* q -> run()'s local update_result while pc[q] = "updated"
    call,                \* q -> the last call made on q
    ret,                 \* q -> what the last call on q returned or raised
    calls,               \* q -> the driver and bulk-writer calls the last call on q made
    hist,                \* q -> what q's caller has done so far: the on_insert of
                         \*      the last upsert(), the last bulk writer given, and
                         \*      the run() calls since the last builder call with
                         \*      the commands and enqueues they made
    operations,          \* bulk writer -> its list of pending operations
    collection           \* the documents in the database collection

vars == <<variant, find_query, update_expressions, session, is_upsert,
          upsert_insert_doc, bulk_writer, pymongo_kwargs, pc, update_result,
          call, ret, calls, hist, operations, collection>>

----------------------------------------------------------------------------
(* Bounds of the model *)

\* longest expression sequence a query accumulates under Spec
MaxExprs == 2
\* longest expression sequence a query accumulates under SpecMerge
MaxMergeExprs == 3
\* pending operations the bulk writers hold in total
MaxOps == 2
\* run() calls on a query without a builder call in between
MaxRuns == 2

----------------------------------------------------------------------------
(* Values *)

None == "None"
Queries == {"q1", "q2"}
Variants == {"UpdateMany", "UpdateOne"}
Sessions == {"s1", "s2"}
BulkWriters == {"bw1", "bw2"}
Keywords == {"$set", "$max"}
Fields == {"x", "y"}

EmptyMap == [k \in {} |-> 0]

\* mutant of DictUpdate: the new mapping replaces the old one
DictReplace(a, b) == b

\* dict.update(): the entries of b are written over those of a, key by key
DictUpdate(a, b) ==
    [k \in DOMAIN a \cup DOMAIN b |-> IF k \in DOMAIN b THEN b[k] ELSE a[k]]

\* a field value: an integer, or an object of a type with a registered encoder
IntValue(n) == [t |-> "int", v |-> n]
CustomValue(n) == [t |-> "Custom", v |-> n]
Values == {IntValue(1), IntValue(2), CustomValue(1)}

\* the model's bson_encoders: objects of type Custom are stored as strings
bson_encoders == [Custom |-> "str"]

\* Encoder.encode on one value
EncodeValue(v) ==
    IF v.t \in DOMAIN bson_encoders
    THEN [t |-> bson_encoders[v.t], v |-> v.v]
    ELSE v

\* Encoder.encode on a keyword -> field -> value mapping
Encode(query) ==
    [k \in DOMAIN query |->
        [f \in DOMAIN query[k] |-> EncodeValue(query[k][f])]]

\* an update operator object such as Set({f: v}) or Max({f: v})
Operator(k, f, v) ==
    [type |-> "BaseUpdateOperator", query |-> [kk \in {k} |-> [ff \in {f} |-> v]]]
\* a raw mapping
RawDict(m) == [type |-> "dict", query |-> m]
\* an argument that is neither: a string
BadExpression == [type |-> "str", query |-> EmptyMap]

\* the expressions of SpecMerge
MergeExpressions ==
    {Operator(k, f, v) : k \in Keywords, f \in Fields, v \in Values}
    \cup {RawDict([kk \in {k} |-> [ff \in {f} |-> v]]) :
              k \in Keywords, f \in Fields, v \in {IntValue(1), IntValue(2)}}
    \cup {RawDict([kk \in Keywords |-> [ff \in {"x"} |-> IntValue(1)]]),
          RawDict([kk \in {"$set"} |-> [ff \in Fields |-> IntValue(1)]]),
          BadExpression}

\* the expressions of Spec
Expressions == {Operator("$set", "x", CustomValue(1)), BadExpression}

----------------------------------------------------------------------------
(* The update_query property *)

TypeError == [type |-> "raise", exc |-> "TypeError"]
Dict(m) == [type |-> "dict", value |-> m]

\* mutant of MergeLoop: the document is the one of the first expression,
\* as if kept from the first time it was computed
MergeLoopFirstOnly(exprs, n) ==
    IF n = 0 THEN EmptyMap ELSE exprs[1].query

\* the loop of update_query over the first n expressions: query.update(...)
RECURSIVE MergeLoop(_, _)
MergeLoop(exprs, n) ==
    IF n = 0 THEN EmptyMap
    ELSE DictUpdate(MergeLoop(exprs, n - 1), exprs[n].query)

\* mutant of RaisesTypeError: only the first expression's type is tested
RaisesTypeErrorFirstOnly(exprs) ==
    Len(exprs) > 0 /\ exprs[1].type \notin {"BaseUpdateOperator", "dict"}

\* the loop reaches an expression that is neither an operator nor a dict
RaisesTypeError(exprs) ==
    \E i \in 1..Len(exprs) : exprs[i].type \notin {"BaseUpdateOperator", "dict"}

\* what an access of update_query gives: the encoded merge, or TypeError
update_query(exprs) ==
    IF RaisesTypeError(exprs)
    THEN TypeError
    ELSE Dict(Encode(MergeLoop(exprs, Len(exprs))))

----------------------------------------------------------------------------
(* Documents, results and calls *)

\* documents of the model type; the document itself stands for its _id
Docs == {"d1", "d2", "d3"}
\* the documents and handles the caller of Spec uses
SpecDocs == {"d1", "d3"}
SpecSessions == {"s1"}
SpecWriters == {"bw1"}
\* the fallback documents of SpecRace: both match the filter
RaceDocs == {"d1", "d2"}
\* the documents a collection may hold before the first call
StoredDocs == {"d1", "d2"}
\* the value of each document's field "integer"
DocInteger == [d1 |-> 1, d2 |-> 1, d3 |-> 2]
\* the filter of the queries: Sample.integer == 1
Filter == [integer |-> 1]
\* keyword arguments passed through to pymongo
KwargsSet == {EmptyMap, [hint |-> 1]}

\* the documents of the collection that filter fq selects
Matching(fq) == {d \in collection : DocInteger[d] = fq.integer}

NoResult == [type |-> "None"]
Self == [type |-> "self"]
Running == [type |-> "running"]
UpdateResult(n) == [type |-> "UpdateResult", matched_count |-> n]
InsertOneResult(d) == [type |-> "InsertOneResult", inserted_id |-> d]
Raise(e) == [type |-> "raise", exc |-> e]

\* the pymongo operation class of each variant's bulk operation
PyMongoOperation(v) == IF v = "UpdateMany" THEN "UpdateManyPyMongo" ELSE "UpdateOnePyMongo"
\* mutant of CollectionMethod: both variants call update_many
CollectionMethodAlwaysMany(v) == "update_many"

\* the collection method of each variant's immediate command
CollectionMethod(v) == IF v = "UpdateMany" THEN "update_many" ELSE "update_one"
\* matched_count of the driver's command: update_one stops at the first match
MatchedCount(v, fq) ==
    IF v = "UpdateMany" \/ Cardinality(Matching(fq)) = 0
    THEN Cardinality(Matching(fq))
    ELSE 1

\* Operation(operation=..., first_query=..., second_query=..., object_class=...)
Operation(op, first, second, cls) ==
    [operation |-> op, first_query |-> first, second_query |-> second,
     object_class |-> cls]

\* mutant of UpdateCall: the command is issued without the session
UpdateCallNoSession(method, fq, upd, s, kw, res) ==
    [cmd |-> method, filter |-> fq, update |-> upd, session |-> None,
     kwargs |-> kw, result |-> res]

\* collection.update_many / update_one (filter, update, session=, **kwargs)
UpdateCall(method, fq, upd, s, kw, res) ==
    [cmd |-> method, filter |-> fq, update |-> upd, session |-> s,
     kwargs |-> kw, result |-> res]
\* bulk_writer.add_operation(operation)
AddOperationCall(bw, op) ==
    [cmd |-> "add_operation", bulk_writer |-> bw, operation |-> op]
\* document_model.insert_one(document=, session=, bulk_writer=)
InsertCall(d, s, bw, res) ==
    [cmd |-> "insert_one", document |-> d, session |-> s, bulk_writer |-> bw,
     result |-> res]

\* all pending operations of all bulk writers
PendingCount == Len(operations["bw1"]) + Len(operations["bw2"])

\* the caller has only constructed the query
NoHistory == [on_insert |-> None, bulk_writer |-> None, runs |-> 0, commands |-> 0]

\* the caller's record after a builder call that gave bulk writer bw
AfterBuilderCall(h, bw) ==
    [h EXCEPT !.bulk_writer = IF bw # None THEN bw ELSE @,
              !.runs = 0, !.commands = 0]

----------------------------------------------------------------------------
(* Construction *)

\* UpdateQuery.__init__ for every query object, and the collection it finds
Init ==
    /\ variant \in {[q \in Queries |-> IF q = "q1" THEN v ELSE "UpdateMany"] : v \in Variants}
    /\ find_query = [q \in Queries |-> Filter]
    /\ update_expressions = [q \in Queries |-> <<>>]
    /\ session = [q \in Queries |-> None]
    /\ is_upsert = [q \in Queries |-> FALSE]
    /\ upsert_insert_doc = [q \in Queries |-> None]
    /\ bulk_writer = [q \in Queries |-> None]
    /\ pymongo_kwargs = [q \in Queries |-> EmptyMap]
    /\ pc = [q \in Queries |-> "idle"]
    /\ update_result = [q \in Queries |-> NoResult]
    /\ call = [q \in Queries |-> "__init__"]
    /\ ret = [q \in Queries |-> Self]
    /\ calls = [q \in Queries |-> <<>>]
    /\ hist = [q \in Queries |-> NoHistory]
    /\ operations = [bw \in BulkWriters |-> <<>>]
    /\ collection \in SUBSET StoredDocs

----------------------------------------------------------------------------
(* The builder calls *)

\* SessionMethods.set_session(session=s): s is bound; what a call without a
\* session does to an earlier binding is not fixed, so both outcomes are kept
set_session(q, s, new) ==
    IF s # None THEN new = s ELSE new \in {session[q], None}

\* mutant of update: the call returns a copy of the query
updateReturnsCopy(q, args, s, bw, kw) ==
    /\ \E new \in Sessions \cup {None} :
          /\ set_session(q, s, new)
          /\ session' = [session EXCEPT ![q] = new]
    /\ update_expressions' = [update_expressions EXCEPT ![q] = @ \o args]
    /\ bulk_writer' = [bulk_writer EXCEPT ![q] = IF bw # None THEN bw ELSE @]
    /\ pymongo_kwargs' = [pymongo_kwargs EXCEPT ![q] = DictUpdate(@, kw)]
    /\ ret' = [ret EXCEPT ![q] = [type |-> "copy"]]
    /\ calls' = [calls EXCEPT ![q] = <<>>]

\* mutant of update: the bulk_writer argument is bound also when it is None
updateRebinds(q, args, s, bw, kw) ==
    /\ \E new \in Sessions \cup {None} :
          /\ set_session(q, s, new)
          /\ session' = [session EXCEPT ![q] = new]
    /\ update_expressions' = [update_expressions EXCEPT ![q] = @ \o args]
    /\ bulk_writer' = [bulk_writer EXCEPT ![q] = bw]
    /\ pymongo_kwargs' = [pymongo_kwargs EXCEPT ![q] = DictUpdate(@, kw)]
    /\ ret' = [ret EXCEPT ![q] = Self]
    /\ calls' = [calls EXCEPT ![q] = <<>>]

\* the body of update(*args, session=s, bulk_writer=bw, **kw)
update(q, args, s, bw, kw) ==
    /\ \E new \in Sessions \cup {None} :
          /\ set_session(q, s, new)
          /\ session' = [session EXCEPT ![q] = new]
    /\ update_expressions' = [update_expressions EXCEPT ![q] = @ \o args]
    /\ bulk_writer' = [bulk_writer EXCEPT ![q] = IF bw # None THEN bw ELSE @]
    /\ pymongo_kwargs' = [pymongo_kwargs EXCEPT ![q] = DictUpdate(@, kw)]
    /\ ret' = [ret EXCEPT ![q] = Self]
    /\ calls' = [calls EXCEPT ![q] = <<>>]

\* mutant of Update: a plain update() takes the query out of upsert mode
UpdateClearsFallback(q, args, s, bw, kw) ==
    /\ pc[q] = "idle"
    /\ update(q, args, s, bw, kw)
    /\ call' = [call EXCEPT ![q] = "update"]
    /\ hist' = [hist EXCEPT ![q] = AfterBuilderCall(@, bw)]
    /\ upsert_insert_doc' = [upsert_insert_doc EXCEPT ![q] = None]
    /\ UNCHANGED <<variant, find_query, is_upsert, pc, update_result,
                   operations, collection>>

\* q.update(*args, session=s, bulk_writer=bw, **kw)
Update(q, args, s, bw, kw) ==
    /\ pc[q] = "idle"
    /\ update(q, args, s, bw, kw)
    /\ call' = [call EXCEPT ![q] = "update"]
    /\ hist' = [hist EXCEPT ![q] = AfterBuilderCall(@, bw)]
    /\ UNCHANGED <<variant, find_query, is_upsert, upsert_insert_doc, pc,
                   update_result, operations, collection>>

\* q.update_many(*args, session=s, bulk_writer=bw, **kw) of an UpdateMany
update_many(q, args, s, bw, kw) ==
    /\ variant[q] = "UpdateMany"
    /\ pc[q] = "idle"
    /\ update(q, args, s, bw, kw)
    /\ call' = [call EXCEPT ![q] = "update_many"]
    /\ hist' = [hist EXCEPT ![q] = AfterBuilderCall(@, bw)]
    /\ UNCHANGED <<variant, find_query, is_upsert, upsert_insert_doc, pc,
                   update_result, operations, collection>>

\* q.update_one(*args, session=s, bulk_writer=bw, **kw) of an UpdateOne
update_one(q, args, s, bw, kw) ==
    /\ variant[q] = "UpdateOne"
    /\ pc[q] = "idle"
    /\ update(q, args, s, bw, kw)
    /\ call' = [call EXCEPT ![q] = "update_one"]
    /\ hist' = [hist EXCEPT ![q] = AfterBuilderCall(@, bw)]
    /\ UNCHANGED <<variant, find_query, is_upsert, upsert_insert_doc, pc,
                   update_result, operations, collection>>

\* q.upsert(*args, on_insert=doc, session=s, bulk_writer=bw, **kw)
Upsert(q, args, doc, s, bw, kw) ==
    /\ pc[q] = "idle"
    /\ upsert_insert_doc' = [upsert_insert_doc EXCEPT ![q] = doc]
    /\ update(q, args, s, bw, kw)
    /\ call' = [call EXCEPT ![q] = "upsert"]
    /\ hist' = [hist EXCEPT ![q] = [AfterBuilderCall(@, bw) EXCEPT !.on_insert = doc]]
    /\ UNCHANGED <<variant, find_query, is_upsert, pc, update_result,
                   operations, collection>>

\* q.update_query read by the caller
AccessUpdateQuery(q) ==
    /\ pc[q] = "idle"
    /\ call' = [call EXCEPT ![q] = "update_query"]
    /\ ret' = [ret EXCEPT ![q] = update_query(update_expressions[q])]
    /\ calls' = [calls EXCEPT ![q] = <<>>]
    /\ UNCHANGED <<variant, find_query, update_expressions, session, is_upsert,
                   upsert_insert_doc, bulk_writer, pymongo_kwargs, pc,
                   update_result, hist, operations, collection>>

----------------------------------------------------------------------------
(* run() *)

\* mutant of NoBulkWriter: _update takes the direct path whatever is bound
NoBulkWriterIgnored(q) == TRUE

\* UpdateMany._update tests "is None", UpdateOne._update tests "not ..."
NoBulkWriter(q) == bulk_writer[q] = None

\* mutant of RunUpdate: a run() after the first one gives back the first
\* one's outcome without issuing anything
RunUpdateMemoized(q, ok) ==
    IF hist[q].runs >= 1
    THEN /\ pc[q] = "idle"
         /\ hist[q].runs < MaxRuns
         /\ call' = [call EXCEPT ![q] = "run"]
         /\ calls' = [calls EXCEPT ![q] = <<>>]
         /\ hist' = [hist EXCEPT ![q].runs = @ + 1]
         /\ UNCHANGED <<variant, find_query, update_expressions, session,
                        is_upsert, upsert_insert_doc, bulk_writer,
                        pymongo_kwargs, pc, update_result, ret, operations,
                        collection>>
    ELSE
         /\ pc[q] = "idle"
         /\ hist[q].runs < MaxRuns
         /\ call' = [call EXCEPT ![q] = "run"]
         /\ LET uq == update_query(update_expressions[q])
                method == CollectionMethod(variant[q])
                res == IF ok THEN UpdateResult(MatchedCount(variant[q], find_query[q]))
                       ELSE Raise("DriverError")
                op == Operation(PyMongoOperation(variant[q]), find_query[q],
                                uq.value, "DocType")
            IN  IF uq.type = "raise"
                THEN /\ ret' = [ret EXCEPT ![q] = uq]
                     /\ calls' = [calls EXCEPT ![q] = <<>>]
                     /\ UNCHANGED <<pc, update_result, operations>>
                ELSE IF NoBulkWriter(q)
                THEN /\ calls' = [calls EXCEPT ![q] =
                            <<UpdateCall(method, find_query[q], uq.value, session[q],
                                         pymongo_kwargs[q], res)>>]
                     /\ IF ok
                        THEN /\ update_result' = [update_result EXCEPT ![q] = res]
                             /\ pc' = [pc EXCEPT ![q] = "updated"]
                             /\ ret' = [ret EXCEPT ![q] = Running]
                        ELSE /\ ret' = [ret EXCEPT ![q] = res]
                             /\ UNCHANGED <<pc, update_result>>
                     /\ UNCHANGED operations
                ELSE /\ PendingCount < MaxOps
                     /\ operations' = [operations EXCEPT ![bulk_writer[q]] = Append(@, op)]
                     /\ calls' = [calls EXCEPT ![q] = <<AddOperationCall(bulk_writer[q], op)>>]
                     /\ update_result' = [update_result EXCEPT ![q] = NoResult]
                     /\ pc' = [pc EXCEPT ![q] = "updated"]
                     /\ ret' = [ret EXCEPT ![q] = Running]
         /\ hist' = [hist EXCEPT ![q].runs = @ + 1,
                                 ![q].commands = @ + Len(calls'[q])]
         /\ UNCHANGED <<variant, find_query, update_expressions, session, is_upsert,
                        upsert_insert_doc, bulk_writer, pymongo_kwargs, collection>>

\* self._update(), first statement of run(): the update round trip, or the
\* enqueue on the bulk writer.  ok: the driver's command succeeds
RunUpdate(q, ok) ==
    /\ pc[q] = "idle"
    /\ hist[q].runs < MaxRuns
    /\ call' = [call EXCEPT ![q] = "run"]
    /\ LET uq == update_query(update_expressions[q])
           method == CollectionMethod(variant[q])
           res == IF ok THEN UpdateResult(MatchedCount(variant[q], find_query[q]))
                  ELSE Raise("DriverError")
           op == Operation(PyMongoOperation(variant[q]), find_query[q],
                           uq.value, "DocType")
       IN  IF uq.type = "raise"
           THEN /\ ret' = [ret EXCEPT ![q] = uq]
                /\ calls' = [calls EXCEPT ![q] = <<>>]
                /\ UNCHANGED <<pc, update_result, operations>>
           ELSE IF NoBulkWriter(q)
           THEN /\ calls' = [calls EXCEPT ![q] =
                       <<UpdateCall(method, find_query[q], uq.value, session[q],
                                    pymongo_kwargs[q], res)>>]
                /\ IF ok
                   THEN /\ update_result' = [update_result EXCEPT ![q] = res]
                        /\ pc' = [pc EXCEPT ![q] = "updated"]
                        /\ ret' = [ret EXCEPT ![q] = Running]
                   ELSE /\ ret' = [ret EXCEPT ![q] = res]
                        /\ UNCHANGED <<pc, update_result>>
                /\ UNCHANGED operations
           ELSE /\ PendingCount < MaxOps
                /\ operations' = [operations EXCEPT ![bulk_writer[q]] = Append(@, op)]
                /\ calls' = [calls EXCEPT ![q] = <<AddOperationCall(bulk_writer[q], op)>>]
                /\ update_result' = [update_result EXCEPT ![q] = NoResult]
                /\ pc' = [pc EXCEPT ![q] = "updated"]
                /\ ret' = [ret EXCEPT ![q] = Running]
    /\ hist' = [hist EXCEPT ![q].runs = @ + 1,
                            ![q].commands = @ + Len(calls'[q])]
    /\ UNCHANGED <<variant, find_query, update_expressions, session, is_upsert,
                   upsert_insert_doc, bulk_writer, pymongo_kwargs, collection>>

\* the outcome of document_model.insert_one(document=d, session=s,
\* bulk_writer=bw): with no bulk writer the insert round trip, else an enqueue
insert_one(d, bw, ok) ==
    IF bw # None THEN NoResult
    ELSE IF d \in collection THEN Raise("DuplicateKeyError")
    ELSE IF ok THEN InsertOneResult(d)
    ELSE Raise("DriverError")

\* mutant of ShouldInsert: a single match still counts as no match
ShouldInsertAtMostOne(q) ==
    /\ upsert_insert_doc[q] # None
    /\ update_result[q] # NoResult
    /\ update_result[q].matched_count <= 1

\* mutant of ShouldInsert: no update result counts as no match
ShouldInsertNoResult(q) ==
    /\ upsert_insert_doc[q] # None
    /\ \/ update_result[q] = NoResult
       \/ update_result[q].matched_count = 0

\* mutant of ShouldInsert: every run() of an upsert query inserts
ShouldInsertAlways(q) == upsert_insert_doc[q] # None

\* the test of run() that sends it to the fallback insert
ShouldInsert(q) ==
    /\ upsert_insert_doc[q] # None
    /\ update_result[q] # NoResult
    /\ update_result[q].matched_count = 0

\* the rest of run(): return the update result, or do the fallback insert
RunFinish(q, ok) ==
    /\ pc[q] = "updated"
    /\ LET d == upsert_insert_doc[q]
           res == insert_one(d, bulk_writer[q], ok)
       IN  IF ShouldInsert(q)
           THEN /\ ret' = [ret EXCEPT ![q] = res]
                /\ calls' = [calls EXCEPT ![q] =
                       Append(@, InsertCall(d, session[q], bulk_writer[q], res))]
                /\ collection' = IF res.type = "InsertOneResult"
                                 THEN collection \cup {d} ELSE collection
                /\ operations' =
                       IF bulk_writer[q] # None
                       THEN [operations EXCEPT ![bulk_writer[q]] =
                                Append(@, Operation("InsertOne", d, EmptyMap, "DocType"))]
                       ELSE operations
           ELSE /\ ret' = [ret EXCEPT ![q] = update_result[q]]
                /\ UNCHANGED <<calls, operations, collection>>
    /\ pc' = [pc EXCEPT ![q] = "idle"]
    /\ update_result' = [update_result EXCEPT ![q] = NoResult]
    /\ UNCHANGED <<variant, find_query, update_expressions, session, is_upsert,
                   upsert_insert_doc, bulk_writer, pymongo_kwargs, call, hist>>

----------------------------------------------------------------------------
(* Specifications *)

\* argument tuples of one builder call
ArgsOver(E) == {<<>>} \cup {<<e>> : e \in E}

\* one caller builds and runs the query q1
Next ==
    \/ \E args \in ArgsOver(Expressions), s \in SpecSessions \cup {None},
          bw \in SpecWriters \cup {None}, kw \in KwargsSet :
          /\ Len(update_expressions["q1"]) + Len(args) <= MaxExprs
          /\ Update("q1", args, s, bw, kw)
    \/ \E args \in ArgsOver(Expressions), d \in SpecDocs,
          s \in SpecSessions \cup {None}, bw \in SpecWriters \cup {None},
          kw \in KwargsSet :
          /\ Len(update_expressions["q1"]) + Len(args) <= MaxExprs
          /\ Upsert("q1", args, d, s, bw, kw)
    \/ AccessUpdateQuery("q1")
    \/ \E ok \in BOOLEAN : RunUpdate("q1", ok)
    \/ \E ok \in BOOLEAN : RunFinish("q1", ok)

Spec == Init /\ [][Next]_vars

\* the merge alone: expressions are appended to q1 and update_query is read
NextMerge ==
    \/ \E e \in MergeExpressions :
          /\ Len(update_expressions["q1"]) < MaxMergeExprs
          /\ Update("q1", <<e>>, None, None, EmptyMap)
    \/ AccessUpdateQuery("q1")

\* q1 after construction; the merge reads neither the class nor the collection
InitMerge == Init /\ variant["q1"] = "UpdateMany" /\ collection = {}

SpecMerge == InitMerge /\ [][NextMerge]_vars

\* two built upsert queries with the same filter, no bulk writer, and a
\* collection that holds no document
InitRace ==
    /\ variant \in [Queries -> Variants]
    /\ find_query = [q \in Queries |-> Filter]
    /\ update_expressions \in [Queries -> {<<e>> : e \in Expressions \ {BadExpression}}]
    /\ session \in [Queries -> SpecSessions \cup {None}]
    /\ is_upsert = [q \in Queries |-> FALSE]
    /\ upsert_insert_doc \in [Queries -> RaceDocs]
    /\ bulk_writer = [q \in Queries |-> None]
    /\ pymongo_kwargs = [q \in Queries |-> EmptyMap]
    /\ pc = [q \in Queries |-> "idle"]
    /\ update_result = [q \in Queries |-> NoResult]
    /\ call = [q \in Queries |-> "__init__"]
    /\ ret = [q \in Queries |-> Self]
    /\ calls = [q \in Queries |-> <<>>]
    /\ hist = [q \in Queries |->
                  [NoHistory EXCEPT !.on_insert = upsert_insert_doc[q]]]
    /\ operations = [bw \in BulkWriters |-> <<>>]
    /\ collection = {}

\* the expressions of SpecBuild: two valid ones with different keywords
BuildExpressions ==
    {Operator("$max", "x", IntValue(1)),
     RawDict([kk \in {"$set"} |-> [ff \in {"x"} |-> IntValue(2)]])}

\* the collection of SpecBuild starts empty
InitBuild == Init /\ collection = {}

\* one caller builds q1 with every builder call, both bulk writers and
\* valid expressions (no session, no passthrough options), reads
\* update_query and runs q1
NextBuild ==
    \/ \E args \in ArgsOver(BuildExpressions), bw \in BulkWriters \cup {None} :
          /\ Len(update_expressions["q1"]) + Len(args) <= MaxExprs
          /\ \/ Update("q1", args, None, bw, EmptyMap)
             \/ update_many("q1", args, None, bw, EmptyMap)
             \/ update_one("q1", args, None, bw, EmptyMap)
    \/ \E args \in ArgsOver(BuildExpressions), d \in SpecDocs,
          bw \in BulkWriters \cup {None} :
          /\ Len(update_expressions["q1"]) + Len(args) <= MaxExprs
          /\ Upsert("q1", args, d, None, bw, EmptyMap)
    \/ AccessUpdateQuery("q1")
    \/ \E ok \in BOOLEAN : RunUpdate("q1", ok)
    \/ \E ok \in BOOLEAN : RunFinish("q1", ok)

SpecBuild == InitBuild /\ [][NextBuild]_vars

\* the callers of q1 and q2 run them, their round trips interleaved
NextRace ==
    \/ \E q \in Queries, ok \in BOOLEAN : RunUpdate(q, ok)
    \/ \E q \in Queries, ok \in BOOLEAN : RunFinish(q, ok)

SpecRace == InitRace /\ [][NextRace]_vars

----------------------------------------------------------------------------
(* Properties *)

\* the driver commands among the calls of the last call on q
IsUpdateCommand(c) == c.cmd \in {"update_many", "update_one"}
IsInsert(c) == c.cmd = "insert_one"

\* q's last call was a run() that has returned or raised
RunEnded(q) == call[q] = "run" /\ pc[q] = "idle"

\* an element of exprs is neither an update operator nor a raw mapping
ContainsInvalid(exprs) ==
    \E i \in 1..Len(exprs) : exprs[i].type = "str"

\* C1: a run() of an upsert query with no bulk writer whose update command
\* returned a result does the fallback insert of the on_insert document and
\* returns that insert's outcome if and only if matched_count is 0; with
\* matched_count >= 1 it returns the update result and makes no insert.
UpsertFallbackOnlyOnZeroMatches ==
    LET c == calls["q1"] IN
    (/\ RunEnded("q1")
     /\ upsert_insert_doc["q1"] # None
     /\ Len(c) >= 1
     /\ IsUpdateCommand(c[1])
     /\ c[1].result.type = "UpdateResult")
    => IF c[1].result.matched_count = 0
       THEN /\ Len(c) = 2
            /\ IsInsert(c[2])
            /\ c[2].document = upsert_insert_doc["q1"]
            /\ ret["q1"] = c[2].result
            /\ (c[2].result.type = "InsertOneResult"
                   => upsert_insert_doc["q1"] \in collection)
       ELSE /\ Len(c) = 1
            /\ ret["q1"] = c[1].result

\* C1 witness: no document matched, the fallback document was inserted and
\* the insert's result returned
UpsertFallbackWitness ==
    /\ RunEnded("q1")
    /\ Len(calls["q1"]) = 2
    /\ calls["q1"][1].result = UpdateResult(0)
    /\ ret["q1"] = InsertOneResult("d1")
    /\ "d1" \in collection

\* C2: whenever two expressions of the sequence contribute disjoint field
\* sets to the same keyword, the merged update document holds the union of
\* both field sets under that keyword, and a sequence of two such
\* expressions merges to the same document in both orders.
MergeUnionPerKeyword ==
    LET e == update_expressions["q1"]
        uq == update_query(e)
    IN  uq.type = "dict" =>
        /\ \A i, j \in 1..Len(e) :
              \A k \in DOMAIN e[i].query \cap DOMAIN e[j].query :
                 (i # j /\ DOMAIN e[i].query[k] \cap DOMAIN e[j].query[k] = {})
                 => (DOMAIN e[i].query[k] \cup DOMAIN e[j].query[k])
                        \subseteq DOMAIN uq.value[k]
        /\ (/\ Len(e) = 2
            /\ \A k \in DOMAIN e[1].query \cap DOMAIN e[2].query :
                  DOMAIN e[1].query[k] \cap DOMAIN e[2].query[k] = {})
           => uq = update_query(<<e[2], e[1]>>)

\* C3: whenever two expressions of the sequence assign the same field under
\* the same keyword, the merged update document holds for that keyword and
\* field the (encoded) value of the later one.
MergeLastWriteWins ==
    LET e == update_expressions["q1"]
        uq == update_query(e)
        Assigns(i, k, f) == k \in DOMAIN e[i].query /\ f \in DOMAIN e[i].query[k]
    IN  uq.type = "dict" =>
        \A i, j \in 1..Len(e) : \A k \in Keywords, f \in Fields :
           (/\ i < j
            /\ Assigns(i, k, f)
            /\ Assigns(j, k, f)
            /\ \A l \in (j + 1)..Len(e) : ~Assigns(l, k, f))
           => /\ k \in DOMAIN uq.value
              /\ f \in DOMAIN uq.value[k]
              /\ uq.value[k][f] = EncodeValue(e[j].query[k][f])

\* C4: the merged update document has one entry per distinct keyword of the
\* sequence, and the entry of a keyword that one expression alone carries
\* holds exactly that expression's (encoded) fields, whatever fields the
\* expressions with other keywords name.
CrossKeywordIndependence ==
    LET e == update_expressions["q1"]
        uq == update_query(e)
    IN  uq.type = "dict" =>
        /\ DOMAIN uq.value = UNION {DOMAIN e[i].query : i \in 1..Len(e)}
        /\ \A i \in 1..Len(e) : \A k \in DOMAIN e[i].query :
              (\A j \in 1..Len(e) : j # i => k \notin DOMAIN e[j].query)
              => uq.value[k] =
                    [f \in DOMAIN e[i].query[k] |-> EncodeValue(e[i].query[k][f])]

\* C4 witness: Max({x: 1}) then a raw {"$set": {x: 2}} was read as
\* {"$max": {x: 1}, "$set": {x: 2}}
CrossKeywordWitness ==
    /\ call["q1"] = "update_query"
    /\ update_expressions["q1"] =
          <<Operator("$max", "x", IntValue(1)),
            RawDict([kk \in {"$set"} |-> [ff \in {"x"} |-> IntValue(2)]])>>
    /\ ret["q1"].type = "dict"
    /\ DOMAIN ret["q1"].value = {"$max", "$set"}
    /\ ret["q1"].value["$max"]["x"] = IntValue(1)
    /\ ret["q1"].value["$set"]["x"] = IntValue(2)

\* C5: a run() of a query with a bulk writer bound and valid expressions adds
\* exactly one operation to that bulk writer and to no other, issues no
\* update command and no insert, changes nothing in the collection, and
\* returns None, also when a fallback document is set.
BatchedRunStep(q) ==
    /\ (/\ pc[q] = "idle"
        /\ call'[q] = "run"
        /\ bulk_writer[q] # None
        /\ ~ContainsInvalid(update_expressions[q]))
       => /\ pc'[q] = "updated"
          /\ Len(operations'[bulk_writer[q]]) = Len(operations[bulk_writer[q]]) + 1
          /\ \A bw \in BulkWriters \ {bulk_writer[q]} : operations'[bw] = operations[bw]
          /\ \A i \in 1..Len(calls'[q]) :
                ~IsUpdateCommand(calls'[q][i]) /\ ~IsInsert(calls'[q][i])
          /\ collection' = collection
    /\ (/\ pc[q] = "updated"
        /\ pc'[q] = "idle"
        /\ bulk_writer[q] # None)
       => /\ operations' = operations
          /\ collection' = collection
          /\ calls'[q] = calls[q]
          /\ ret'[q] = NoResult

BatchedRunHasNoResult == [][BatchedRunStep("q1")]_vars

\* C5 witness: an upsert query with a bulk writer has run: one operation is
\* pending, nothing was returned
BatchedRunWitness ==
    /\ RunEnded("q1")
    /\ bulk_writer["q1"] = "bw1"
    /\ upsert_insert_doc["q1"] # None
    /\ ret["q1"] = NoResult
    /\ Len(operations["bw1"]) = 1
    /\ Len(calls["q1"]) = 1

\* C6: with an expression that is neither an operator nor a mapping in the
\* sequence, reading update_query and run() raise TypeError and make no
\* driver command, no enqueue and no insert.
TypeRejectionStep(q) ==
    (/\ pc[q] = "idle"
     /\ call'[q] \in {"run", "update_query"}
     /\ ContainsInvalid(update_expressions[q]))
    => /\ ret'[q] = Raise("TypeError")
       /\ calls'[q] = <<>>
       /\ operations' = operations
       /\ collection' = collection
       /\ pc'[q] = "idle"

TypeRejection == [][TypeRejectionStep("q1")]_vars

\* C6 witness: run() of a query with a bulk writer and a second expression
\* of a wrong type has raised TypeError
TypeRejectionWitness ==
    /\ RunEnded("q1")
    /\ bulk_writer["q1"] = "bw1"
    /\ Len(update_expressions["q1"]) = 2
    /\ update_expressions["q1"][2] = BadExpression
    /\ ret["q1"] = Raise("TypeError")
    /\ operations["bw1"] = <<>>

\* C7: upsert queries with the same filter running against a collection that
\* held no matching document insert at most one fallback document in total.
UpsertInsertsOnce ==
    Cardinality({d \in collection : DocInteger[d] = Filter.integer}) <= 1

\* C8: the first step of run() on valid expressions either issues one update
\* command of the variant's kind, with the filter, the merged update
\* document, the session and the passthrough options, and hands its result
\* on (direct path, bulk writers untouched), or appends one operation of the
\* variant's kind with the filter, the merged update document and the model
\* type to the bound bulk writer (no command); a run() without fallback
\* document returns what that step produced.
DispatchStep(q) ==
    LET uq == update_query(update_expressions[q])
        many == variant[q] = "UpdateMany"
        op == [operation |-> IF many THEN "UpdateManyPyMongo" ELSE "UpdateOnePyMongo",
               first_query |-> find_query[q],
               second_query |-> uq.value,
               object_class |-> "DocType"]
    IN
    /\ (/\ pc[q] = "idle"
        /\ call'[q] = "run"
        /\ uq.type = "dict")
       => IF bulk_writer[q] = None
          THEN /\ Len(calls'[q]) = 1
               /\ calls'[q][1].cmd = (IF many THEN "update_many" ELSE "update_one")
               /\ calls'[q][1].filter = find_query[q]
               /\ calls'[q][1].update = uq.value
               /\ calls'[q][1].session = session[q]
               /\ calls'[q][1].kwargs = pymongo_kwargs[q]
               /\ operations' = operations
               /\ IF calls'[q][1].result.type = "UpdateResult"
                  THEN pc'[q] = "updated" /\ update_result'[q] = calls'[q][1].result
                  ELSE pc'[q] = "idle" /\ ret'[q] = calls'[q][1].result
          ELSE /\ calls'[q] = <<[cmd |-> "add_operation",
                                 bulk_writer |-> bulk_writer[q], operation |-> op]>>
               /\ operations' =
                     [operations EXCEPT ![bulk_writer[q]] = Append(@, op)]
               /\ pc'[q] = "updated"
               /\ update_result'[q] = NoResult
    /\ (/\ pc[q] = "updated"
        /\ pc'[q] = "idle"
        /\ upsert_insert_doc[q] = None)
       => /\ ret'[q] = update_result[q]
          /\ calls'[q] = calls[q]
          /\ operations' = operations

DispatchByVariantAndBinding == [][DispatchStep("q1")]_vars

\* C8 witness: an UpdateOne query with two expressions, a session and
\* passthrough options has issued its update_one command
DispatchWitness ==
    /\ variant["q1"] = "UpdateOne"
    /\ pc["q1"] = "updated"
    /\ Len(update_expressions["q1"]) = 2
    /\ session["q1"] = "s1"
    /\ pymongo_kwargs["q1"] = [hint |-> 1]
    /\ Len(calls["q1"]) = 1
    /\ calls["q1"][1].cmd = "update_one"

\* C9: every update command and every fallback insert that a run() of q has
\* made carries the session bound to q.
SessionThreaded ==
    \A i \in 1..Len(calls["q1"]) :
       (IsUpdateCommand(calls["q1"][i]) \/ IsInsert(calls["q1"][i]))
       => calls["q1"][i].session = session["q1"]

\* C9 witness: a run() with session s1 bound has made an update command and
\* a fallback insert
SessionThreadedWitness ==
    /\ RunEnded("q1")
    /\ session["q1"] = "s1"
    /\ Len(calls["q1"]) = 2
    /\ IsUpdateCommand(calls["q1"][1])
    /\ IsInsert(calls["q1"][2])

\* C10: the upsert flag of a query is set if and only if its fallback
\* document is not None.
UpsertFlagIffFallback ==
    \A q \in Queries : is_upsert[q] <=> upsert_insert_doc[q] # None

\* the builder calls of a query
BuilderCalls == {"update", "upsert", "update_many", "update_one"}

\* C11: update(), upsert(), update_many() and update_one() return the query
\* they were called on and only change that query's state: no driver
\* command, no enqueue on any bulk writer, no insert, collection untouched,
\* and the filter and the class of every query are left as they were.
BuilderStep(q) ==
    (pc[q] = "idle" /\ call'[q] \in BuilderCalls)
    => /\ ret'[q] = Self
       /\ calls'[q] = <<>>
       /\ operations' = operations
       /\ collection' = collection
       /\ find_query' = find_query
       /\ variant' = variant
       /\ pc' = pc
       /\ \A o \in Queries \ {q} :
             /\ update_expressions'[o] = update_expressions[o]
             /\ session'[o] = session[o]
             /\ bulk_writer'[o] = bulk_writer[o]
             /\ upsert_insert_doc'[o] = upsert_insert_doc[o]
             /\ pymongo_kwargs'[o] = pymongo_kwargs[o]

BuilderCallsReturnSelf == [][BuilderStep("q1")]_vars

\* C11 witness: update_many() with a second expression and bulk writer bw2
\* has returned the query; nothing is pending on any bulk writer
BuilderCallWitness ==
    /\ call["q1"] = "update_many"
    /\ ret["q1"] = Self
    /\ Len(update_expressions["q1"]) = 2
    /\ bulk_writer["q1"] = "bw2"
    /\ calls["q1"] = <<>>
    /\ \A bw \in BulkWriters : operations[bw] = <<>>

\* the update command c without the result the driver gave
Issued(c) == [c EXCEPT !.result = NoResult]

\* C12: run() leaves the query's expressions, session, bulk-writer binding,
\* fallback document, passthrough options and filter as they are, and every
\* run() on valid expressions issues one update command (direct path) or
\* enqueues one operation (bulk path) anew: a run() that follows a run()
\* with no other call in between issues the same command, or enqueues the
\* same operation once more, and after n such runs n commands or enqueues
\* have been made.
RerunStep(q) ==
    LET valid == ~RaisesTypeError(update_expressions[q]) IN
    /\ call'[q] = "run"
       => /\ update_expressions'[q] = update_expressions[q]
          /\ session'[q] = session[q]
          /\ bulk_writer'[q] = bulk_writer[q]
          /\ upsert_insert_doc'[q] = upsert_insert_doc[q]
          /\ pymongo_kwargs'[q] = pymongo_kwargs[q]
          /\ find_query'[q] = find_query[q]
    /\ (pc[q] = "idle" /\ call'[q] = "run" /\ valid)
       => /\ Len(calls'[q]) = 1
          /\ hist'[q].runs = hist[q].runs + 1
          /\ hist'[q].commands = hist'[q].runs
          /\ IF bulk_writer[q] = None
             THEN IsUpdateCommand(calls'[q][1]) /\ operations' = operations
             ELSE /\ calls'[q][1].cmd = "add_operation"
                  /\ operations' = [operations EXCEPT ![bulk_writer[q]] =
                                        Append(@, calls'[q][1].operation)]
    /\ (pc[q] = "idle" /\ call[q] = "run" /\ call'[q] = "run" /\ valid)
       => /\ calls[q] # <<>>
          /\ IF bulk_writer[q] = None
             THEN Issued(calls'[q][1]) = Issued(calls[q][1])
             ELSE calls'[q][1] = calls[q][1]

RerunReexecutes == [][RerunStep("q1")]_vars

\* C12 witness: two consecutive run() calls of a query with bulk writer bw1
\* have enqueued the same operation twice
RerunWitness ==
    /\ RunEnded("q1")
    /\ hist["q1"].runs = 2
    /\ hist["q1"].commands = 2
    /\ bulk_writer["q1"] = "bw1"
    /\ Len(update_expressions["q1"]) = 1
    /\ Len(operations["bw1"]) = 2
    /\ operations["bw1"][1] = operations["bw1"][2]

\* C13: once run() has been invoked on a query, no later step changes the
\* expression sequence, the session, the bulk-writer binding, the fallback
\* document or the passthrough options that a later run() of it uses.
NoBuildingAfterRun(q) ==
    hist[q].runs >= 1
    => /\ update_expressions'[q] = update_expressions[q]
       /\ session'[q] = session[q]
       /\ bulk_writer'[q] = bulk_writer[q]
       /\ upsert_insert_doc'[q] = upsert_insert_doc[q]
       /\ pymongo_kwargs'[q] = pymongo_kwargs[q]

CompletedIsTerminal == [][NoBuildingAfterRun("q1")]_vars

\* C14: a run() that has ended gave back an update result, a fallback
\* insert's result, an exception, or nothing; nothing only with a bulk writer
\* bound and after exactly one enqueue, never without a bulk writer.  It made
\* at most one update command and at most one insert, and an error that the
\* update command or the insert raised ended the run and is what the caller
\* got; a result that was returned is the result of the last call made.
RunOutcomes ==
    LET c == calls["q1"]
        r == ret["q1"]
    IN  RunEnded("q1") =>
        /\ r.type \in {"UpdateResult", "InsertOneResult", "raise", "None"}
        /\ r = NoResult
           => /\ bulk_writer["q1"] # None
              /\ Len(c) = 1
              /\ c[1].cmd = "add_operation"
        /\ bulk_writer["q1"] = None => r # NoResult
        /\ Cardinality({i \in 1..Len(c) : IsUpdateCommand(c[i])}) <= 1
        /\ Cardinality({i \in 1..Len(c) : IsInsert(c[i])}) <= 1
        /\ \A i \in 1..Len(c) :
              (c[i].cmd # "add_operation" /\ c[i].result.type = "raise")
              => i = Len(c) /\ r = c[i].result
        /\ r.type = "UpdateResult"
           => Len(c) = 1 /\ IsUpdateCommand(c[1]) /\ r = c[1].result
        /\ r.type = "InsertOneResult"
           => Len(c) = 2 /\ IsInsert(c[2]) /\ r = c[2].result
        /\ r = Raise("TypeError") <=> c = <<>>

\* C14 witness: the fallback insert of a run() without bulk writer raised
\* DuplicateKeyError and the caller got it
RunOutcomesWitness ==
    /\ RunEnded("q1")
    /\ bulk_writer["q1"] = None
    /\ Len(calls["q1"]) = 2
    /\ calls["q1"][1].result = UpdateResult(0)
    /\ calls["q1"][2].result = Raise("DuplicateKeyError")
    /\ ret["q1"] = Raise("DuplicateKeyError")

\* the keywords of the expressions exprs
KeywordsOf(exprs) == UNION {DOMAIN exprs[i].query : i \in 1..Len(exprs)}

\* the last expression of exprs that carries keyword k
LastWith(exprs, k) ==
    CHOOSE i \in 1..Len(exprs) :
        /\ k \in DOMAIN exprs[i].query
        /\ \A j \in (i + 1)..Len(exprs) : k \notin DOMAIN exprs[j].query

\* the document that the expressions exprs, taken in their order, stand for:
\* every keyword with the encoded fields of the last expression carrying it
MergeOf(exprs) ==
    [k \in KeywordsOf(exprs) |->
        [f \in DOMAIN exprs[LastWith(exprs, k)].query[k] |->
            EncodeValue(exprs[LastWith(exprs, k)].query[k][f])]]

\* the update document that the last run() on q sent or enqueued
SentDocument(q) ==
    IF calls[q][1].cmd = "add_operation"
    THEN calls[q][1].operation.second_query
    ELSE calls[q][1].update

\* C15: every read of update_query gives the merge of exactly the
\* expressions the query holds at that moment, in their order, and every
\* run() sends or enqueues that same document: nothing is kept from an
\* earlier read or run, so an expression appended since is reflected.
MergeRecomputed ==
    /\ call["q1"] = "update_query"
       => ret["q1"] = Dict(MergeOf(update_expressions["q1"]))
    /\ (call["q1"] = "run" /\ calls["q1"] # <<>>)
       => SentDocument("q1") = MergeOf(update_expressions["q1"])

\* C15 witness: a run() enqueued {"$max": {x: 1}} on bw1; a raw
\* {"$set": {x: 2}} was appended afterwards and the read of update_query
\* that followed gave {"$max": {x: 1}, "$set": {x: 2}}
MergeRecomputedWitness ==
    /\ Len(operations["bw1"]) = 1
    /\ operations["bw1"][1].second_query = [kk \in {"$max"} |-> [ff \in {"x"} |-> IntValue(1)]]
    /\ update_expressions["q1"] =
          <<Operator("$max", "x", IntValue(1)),
            RawDict([kk \in {"$set"} |-> [ff \in {"x"} |-> IntValue(2)]])>>
    /\ call["q1"] = "update_query"
    /\ ret["q1"].type = "dict"
    /\ DOMAIN ret["q1"].value = {"$max", "$set"}
    /\ ret["q1"].value["$set"]["x"] = IntValue(2)

\* C16: whenever a run() has made the fallback insert, the query has no bulk
\* writer bound: the insert was called with bulk_writer None and the query's
\* session and was executed at once (it gave a result or raised); no bulk
\* writer ever holds an insert operation.
FallbackInsertIsImmediate ==
    /\ \A i \in 1..Len(calls["q1"]) :
          IsInsert(calls["q1"][i])
          => /\ bulk_writer["q1"] = None
             /\ calls["q1"][i].bulk_writer = None
             /\ calls["q1"][i].session = session["q1"]
             /\ calls["q1"][i].result.type \in {"InsertOneResult", "raise"}
    /\ \A bw \in BulkWriters : \A i \in 1..Len(operations[bw]) :
          operations[bw][i].operation # "InsertOne"

\* C16 witness: a run() with session s1 and no bulk writer has inserted the
\* fallback document d3 at once
FallbackInsertWitness ==
    /\ RunEnded("q1")
    /\ session["q1"] = "s1"
    /\ Len(calls["q1"]) = 2
    /\ IsInsert(calls["q1"][2])
    /\ calls["q1"][2].bulk_writer = None
    /\ calls["q1"][2].result = InsertOneResult("d3")
    /\ "d3" \in collection

\* C17: the fallback document of a query is the on_insert of the last
\* upsert() made on it, None only if upsert() was never called: update(),
\* update_many(), update_one(), reads and run() leave it alone, a later
\* upsert() replaces it, and a fallback insert inserts that document.
UpsertModeSticky ==
    /\ upsert_insert_doc["q1"] = hist["q1"].on_insert
    /\ \A i \in 1..Len(calls["q1"]) :
          IsInsert(calls["q1"][i])
          => /\ hist["q1"].on_insert # None
             /\ calls["q1"][i].document = hist["q1"].on_insert

\* C17 witness: after upsert(on_insert=d3) and a run() that inserted d3, the
\* last upsert() named d1 and the run() that followed inserted d1
UpsertModeWitness ==
    /\ RunEnded("q1")
    /\ hist["q1"].on_insert = "d1"
    /\ collection = {"d1", "d3"}
    /\ Len(calls["q1"]) = 2
    /\ calls["q1"][2].document = "d1"
    /\ ret["q1"] = InsertOneResult("d1")

\* C18: the bulk writer bound to a query is the last bulk writer that a
\* builder call gave it, None only if none ever gave one: a builder call
\* without bulk writer, a read and run() leave the binding alone, a call with
\* another bulk writer replaces it; and a run() of a query that was given a
\* bulk writer issues no update command.
BulkWriterSticky ==
    /\ bulk_writer["q1"] = hist["q1"].bulk_writer
    /\ hist["q1"].bulk_writer # None
       => \A i \in 1..Len(calls["q1"]) : ~IsUpdateCommand(calls["q1"][i])

\* C18 witness: the query was run with bw1 bound, then given bw2, and its
\* last run() enqueued on bw2 and issued no command
BulkWriterWitness ==
    /\ RunEnded("q1")
    /\ hist["q1"].bulk_writer = "bw2"
    /\ Len(operations["bw1"]) = 1
    /\ Len(operations["bw2"]) = 1
    /\ calls["q1"] = <<AddOperationCall("bw2", operations["bw2"][1])>>
    /\ ret["q1"] = NoResult

====
